---- MODULE Spec2Model ----
(***************************************************************************)
(* Model of storyme-app/check-fields.py: a one-shot script that reads a    *)
(* JSON document from standard input and lists the field names and value   *)
(* types of the first project and of the first scene inside it.            *)
(*                                                                         *)
(* Standard input is a sequence of JSON tokens.  A parsed JSON value is a  *)
(* pair <<kind, payload>>:                                                 *)
(*   <<"null", 0>>   <<"bool", TRUE>>   <<"int", 1>>   <<"float", 50>>     *)
(*   <<"str", "A">>  <<"list", <<v1, ...>>>>                               *)
(*   <<"dict", << <<k1, v1>>, ... >>>>   (pairs in insertion order)        *)
(* A float carries its value in tenths (5.0 is 50).                        *)
(***************************************************************************)
EXTENDS Integers, Sequences, FiniteSets, TLC

VARIABLES stdin, pc, data, p, scene, keys, out, err

vars == <<stdin, pc, data, p, scene, keys, out, err>>

(* Bounds of the explored inputs *)

MaxSceneFields == 2

MaxExtra == 1

(* JSON values as Python objects *)

Unset == <<"unset", 0>>

JNull == <<"null", 0>>

JBool(b) == <<"bool", b>>

JInt(n) == <<"int", n>>

JFloat(tenths) == <<"float", tenths>>

JStr(s) == <<"str", s>>

JList(elems) == <<"list", elems>>

JDict(pairs) == <<"dict", pairs>>

Kind(v) == v[1]

Payload(v) == v[2]

\* type(v).__name__ with bool reported as int, as isinstance(True, int) would suggest
TypeNameBoolAsInt(v) ==
    CASE Kind(v) = "null" -> "NoneType"
      [] Kind(v) = "bool" -> "int"
      [] Kind(v) = "int" -> "int"
      [] Kind(v) = "float" -> "float"
      [] Kind(v) = "str" -> "str"
      [] Kind(v) = "list" -> "list"
      [] Kind(v) = "dict" -> "dict"

\* type(v).__name__ of the Python object json.load builds for v
TypeName(v) ==
    CASE Kind(v) = "null" -> "NoneType"
      [] Kind(v) = "bool" -> "bool"
      [] Kind(v) = "int" -> "int"
      [] Kind(v) = "float" -> "float"
      [] Kind(v) = "str" -> "str"
      [] Kind(v) = "list" -> "list"
      [] Kind(v) = "dict" -> "dict"

\* Python truth value with every container taken as true
TruthyContainersTrue(v) ==
    CASE Kind(v) = "null" -> FALSE
      [] Kind(v) = "bool" -> Payload(v)
      [] Kind(v) = "int" -> Payload(v) # 0
      [] Kind(v) = "float" -> Payload(v) # 0
      [] Kind(v) = "str" -> Payload(v) # ""
      [] Kind(v) = "list" -> TRUE
      [] Kind(v) = "dict" -> TRUE

\* Python truth value of v, as tested by `if v:`
Truthy(v) ==
    CASE Kind(v) = "null" -> FALSE
      [] Kind(v) = "bool" -> Payload(v)
      [] Kind(v) = "int" -> Payload(v) # 0
      [] Kind(v) = "float" -> Payload(v) # 0
      [] Kind(v) = "str" -> Payload(v) # ""
      [] Kind(v) = "list" -> Len(Payload(v)) > 0
      [] Kind(v) = "dict" -> Len(Payload(v)) > 0

\* the keys of a dict, in insertion order: d.keys()
DictKeys(d) == [i \in 1..Len(Payload(d)) |-> Payload(d)[i][1]]

\* k in d, for a dict d
HasKey(d, k) == \E i \in 1..Len(Payload(d)) : Payload(d)[i][1] = k

\* d[k], for a dict d that has the key k
DictGet(d, k) ==
    LET i == CHOOSE j \in 1..Len(Payload(d)) : Payload(d)[j][1] = k
    IN  Payload(d)[i][2]

\* d[k] = v: an existing key keeps its position, a new key goes last
DictSet(d, k, v) ==
    IF HasKey(d, k)
    THEN JDict([i \in 1..Len(Payload(d)) |->
                  IF Payload(d)[i][1] = k THEN <<k, v>> ELSE Payload(d)[i]])
    ELSE JDict(Append(Payload(d), <<k, v>>))

\* the first character of the non-empty strings of the model: s[0]
StrHead(s) ==
    CASE s = "Intro" -> "I"
      [] s = "A" -> "A"
      [] OTHER -> s

(* Results of an expression that may raise *)

Ok(v) == [ok |-> TRUE, val |-> v, exc |-> "none"]

Raise(e) == [ok |-> FALSE, val |-> Unset, exc |-> e]

\* container['key'] for a string key
SubscriptKey(container, key) ==
    CASE Kind(container) = "dict" ->
           IF HasKey(container, key) THEN Ok(DictGet(container, key)) ELSE Raise("KeyError")
      [] Kind(container) \in {"list", "str"} -> Raise("TypeError")
      [] OTHER -> Raise("TypeError")

\* container[-1]: the last element instead of the first
SubscriptLast(container) ==
    CASE Kind(container) = "list" ->
           IF Len(Payload(container)) > 0
           THEN Ok(Payload(container)[Len(Payload(container))])
           ELSE Raise("IndexError")
      [] Kind(container) = "str" ->
           IF Payload(container) # "" THEN Ok(JStr(StrHead(Payload(container))))
           ELSE Raise("IndexError")
      [] Kind(container) = "dict" -> Raise("KeyError")
      [] OTHER -> Raise("TypeError")

\* container[0]
SubscriptZero(container) ==
    CASE Kind(container) = "list" ->
           IF Len(Payload(container)) > 0 THEN Ok(Payload(container)[1])
           ELSE Raise("IndexError")
      [] Kind(container) = "str" ->
           IF Payload(container) # "" THEN Ok(JStr(StrHead(Payload(container))))
           ELSE Raise("IndexError")
      [] Kind(container) = "dict" -> Raise("KeyError")
      [] OTHER -> Raise("TypeError")

(* Ordering of field names: Python compares str by code point *)

CodePoints(k) ==
    CASE k = "id" -> <<105, 100>>
      [] k = "name" -> <<110, 97, 109, 101>>
      [] k = "Name" -> <<78, 97, 109, 101>>
      [] k = "scenes" -> <<115, 99, 101, 110, 101, 115>>
      [] k = "duration" -> <<100, 117, 114, 97, 116, 105, 111, 110>>
      [] k = "title" -> <<116, 105, 116, 108, 101>>
      [] k = "projects" -> <<112, 114, 111, 106, 101, 99, 116, 115>>
      [] k = "a" -> <<97>>
      [] OTHER -> <<>>

RECURSIVE SeqLess(_, _)
SeqLess(a, b) ==
    IF Len(a) = 0 THEN Len(b) > 0
    ELSE IF Len(b) = 0 THEN FALSE
    ELSE IF a[1] # b[1] THEN a[1] < b[1]
    ELSE SeqLess(Tail(a), Tail(b))

LowerCase(cs) == [i \in 1..Len(cs) |-> IF cs[i] \in 65..90 THEN cs[i] + 32 ELSE cs[i]]

\* a.lower() < b.lower(): an ordering that ignores case
StrLessIgnoreCase(a, b) == SeqLess(LowerCase(CodePoints(a)), LowerCase(CodePoints(b)))

\* a < b for two str
StrLess(a, b) == SeqLess(CodePoints(a), CodePoints(b))

RECURSIVE InsertSorted(_, _)
InsertSorted(k, s) ==
    IF Len(s) = 0 THEN <<k>>
    ELSE IF StrLess(k, s[1]) THEN <<k>> \o s
    ELSE <<s[1]>> \o InsertSorted(k, Tail(s))

RECURSIVE SortFrom(_, _)
SortFrom(ks, acc) ==
    IF Len(ks) = 0 THEN acc ELSE SortFrom(Tail(ks), InsertSorted(ks[1], acc))

\* sorted(ks) for a sequence of str
Sorted(ks) == SortFrom(ks, <<>>)

(* Standard input as JSON tokens, and json.load *)

Tok(kind, text) == <<kind, text>>

\* the Python value of a JSON literal name
LiteralValue(text) ==
    CASE text = "true" -> JBool(TRUE)
      [] text = "false" -> JBool(FALSE)
      [] text = "null" -> JNull

\* the Python value of a JSON number: int without a fraction part, float with one
NumberValue(text) ==
    CASE text = "0" -> JInt(0)
      [] text = "1" -> JInt(1)
      [] text = "5" -> JInt(5)
      [] text = "0.0" -> JFloat(0)
      [] text = "5.0" -> JFloat(50)

Got(v, next) == [ok |-> TRUE, val |-> v, pos |-> next]

NoParse == [ok |-> FALSE, val |-> Unset, pos |-> 0]

KindAt(toks, i) == IF i <= Len(toks) THEN toks[i][1] ELSE "eof"

RECURSIVE ParseValue(_, _)
RECURSIVE ParseElements(_, _, _)
RECURSIVE ParseMembers(_, _, _)

\* one JSON value starting at token i
ParseValue(toks, i) ==
    CASE KindAt(toks, i) = "literal" -> Got(LiteralValue(toks[i][2]), i + 1)
      [] KindAt(toks, i) = "number" -> Got(NumberValue(toks[i][2]), i + 1)
      [] KindAt(toks, i) = "string" -> Got(JStr(toks[i][2]), i + 1)
      [] KindAt(toks, i) = "[" ->
           IF KindAt(toks, i + 1) = "]" THEN Got(JList(<<>>), i + 2)
           ELSE ParseElements(toks, i + 1, <<>>)
      [] KindAt(toks, i) = "{" ->
           IF KindAt(toks, i + 1) = "}" THEN Got(JDict(<<>>), i + 2)
           ELSE ParseMembers(toks, i + 1, JDict(<<>>))
      [] OTHER -> NoParse

\* the elements of an array, up to its closing bracket
ParseElements(toks, i, acc) ==
    LET r == ParseValue(toks, i)
    IN  IF ~r.ok THEN NoParse
        ELSE IF KindAt(toks, r.pos) = "," THEN ParseElements(toks, r.pos + 1, Append(acc, r.val))
        ELSE IF KindAt(toks, r.pos) = "]" THEN Got(JList(Append(acc, r.val)), r.pos + 1)
        ELSE NoParse

\* the members of an object, up to its closing brace; a repeated key overwrites
ParseMembers(toks, i, acc) ==
    IF KindAt(toks, i) # "string" \/ KindAt(toks, i + 1) # ":" THEN NoParse
    ELSE LET r == ParseValue(toks, i + 2)
         IN  IF ~r.ok THEN NoParse
             ELSE IF KindAt(toks, r.pos) = ","
                  THEN ParseMembers(toks, r.pos + 1, DictSet(acc, toks[i][2], r.val))
             ELSE IF KindAt(toks, r.pos) = "}"
                  THEN Got(DictSet(acc, toks[i][2], r.val), r.pos + 1)
             ELSE NoParse

\* a decoder that takes the first value and ignores what follows it (raw_decode)
JsonLoadPrefix(toks) ==
    LET r == ParseValue(toks, 1)
    IN  IF r.ok THEN Ok(r.val) ELSE Raise("JSONDecodeError")

\* json.load(sys.stdin): the whole input must be exactly one JSON value
JsonLoad(toks) ==
    LET r == ParseValue(toks, 1)
    IN  IF r.ok /\ r.pos = Len(toks) + 1 THEN Ok(r.val) ELSE Raise("JSONDecodeError")

(* The script, statement by statement *)

ProjectHeader == "Available project fields:"

SceneHeader == "Available scene fields:"

\* print(text): one more line on standard output
Println(o, text) == Append(o, text)

\* f'  - {k}: {type(v).__name__}'
FieldLine(k, v) == "  - " \o k \o ": " \o TypeName(v)

\* obj.keys(): only a dict has the method
KeysOf(obj) ==
    IF Kind(obj) = "dict" THEN Ok(DictKeys(obj)) ELSE Raise("AttributeError")

State == [stdin |-> stdin, pc |-> pc, data |-> data, p |-> p, scene |-> scene,
          keys |-> keys, out |-> out, err |-> err]

StartState(input) == [stdin |-> input, pc |-> "load", data |-> Unset, p |-> Unset,
                      scene |-> Unset, keys |-> <<>>, out |-> <<>>, err |-> "none"]

\* an uncaught exception ends the run
Fail(s, exc) == [s EXCEPT !.pc = "failed", !.err = exc]

\* line 4: data = json.load(sys.stdin)
LoadStep(s) ==
    LET r == JsonLoad(s.stdin)
    IN  IF r.ok THEN [s EXCEPT !.data = r.val, !.pc = "test_projects"]
        ELSE Fail(s, r.exc)

\* line 5: if data['projects']:
TestProjectsStep(s) ==
    LET r == SubscriptKey(s.data, "projects")
    IN  IF ~r.ok THEN Fail(s, r.exc)
        ELSE IF Truthy(r.val) THEN [s EXCEPT !.pc = "get_project"]
        ELSE [s EXCEPT !.pc = "done"]

\* line 6: p = data['projects'][0]
GetProjectStep(s) ==
    LET r == SubscriptKey(s.data, "projects")
        e == IF r.ok THEN SubscriptZero(r.val) ELSE r
    IN  IF e.ok THEN [s EXCEPT !.p = e.val, !.pc = "project_header"]
        ELSE Fail(s, e.exc)

\* line 7: print('Available project fields:')
ProjectHeaderStep(s) ==
    [s EXCEPT !.out = Println(s.out, ProjectHeader), !.pc = "project_keys"]

\* line 8: the iterable of the loop, sorted(p.keys())
ProjectKeysStep(s) ==
    LET r == KeysOf(s.p)
    IN  IF r.ok THEN [s EXCEPT !.keys = Sorted(r.val), !.pc = "project_loop"]
        ELSE Fail(s, r.exc)

\* lines 8-10 with the test of line 9 dropped: every key is printed
ProjectLoopStepNoFilter(s) ==
    IF s.keys = <<>> THEN [s EXCEPT !.pc = "test_scenes"]
    ELSE LET k == Head(s.keys)
         IN  [s EXCEPT !.keys = Tail(s.keys),
                       !.out = Println(s.out, FieldLine(k, DictGet(s.p, k)))]

\* lines 8-10 with the loop left at the key 'scenes' (break) instead of skipping it
ProjectLoopStepBreak(s) ==
    IF s.keys = <<>> \/ Head(s.keys) = "scenes" THEN [s EXCEPT !.pc = "test_scenes"]
    ELSE LET k == Head(s.keys)
         IN  [s EXCEPT !.keys = Tail(s.keys),
                       !.out = Println(s.out, FieldLine(k, DictGet(s.p, k)))]

\* lines 8-10: one iteration of the project loop, or its end
ProjectLoopStep(s) ==
    IF s.keys = <<>> THEN [s EXCEPT !.pc = "test_scenes"]
    ELSE LET k == Head(s.keys)
         IN  [s EXCEPT !.keys = Tail(s.keys),
                       !.out = IF k # "scenes"
                               THEN Println(s.out, FieldLine(k, DictGet(s.p, k)))
                               ELSE s.out]

\* line 12: if 'scenes' in p and p['scenes']:
TestScenesStep(s) ==
    IF HasKey(s.p, "scenes") /\ Truthy(DictGet(s.p, "scenes"))
    THEN [s EXCEPT !.pc = "scene_header"]
    ELSE [s EXCEPT !.pc = "done"]

\* line 13: print('\nAvailable scene fields:'), a blank line and the header
SceneHeaderStep(s) ==
    [s EXCEPT !.out = Println(Println(s.out, ""), SceneHeader), !.pc = "get_scene"]

\* line 14: scene = p['scenes'][0]
GetSceneStep(s) ==
    LET r == SubscriptKey(s.p, "scenes")
        e == IF r.ok THEN SubscriptZero(r.val) ELSE r
    IN  IF e.ok THEN [s EXCEPT !.scene = e.val, !.pc = "scene_keys"]
        ELSE Fail(s, e.exc)

\* line 15: the iterable of the loop, sorted(scene.keys())
SceneKeysStep(s) ==
    LET r == KeysOf(s.scene)
    IN  IF r.ok THEN [s EXCEPT !.keys = Sorted(r.val), !.pc = "scene_loop"]
        ELSE Fail(s, r.exc)

\* lines 15-16 with the test of line 9 copied into the scene loop
SceneLoopStepFiltered(s) ==
    IF s.keys = <<>> THEN [s EXCEPT !.pc = "done"]
    ELSE LET k == Head(s.keys)
         IN  [s EXCEPT !.keys = Tail(s.keys),
                       !.out = IF k # "scenes"
                               THEN Println(s.out, FieldLine(k, DictGet(s.scene, k)))
                               ELSE s.out]

\* lines 15-16: one iteration of the scene loop, or the end of the script
SceneLoopStep(s) ==
    IF s.keys = <<>> THEN [s EXCEPT !.pc = "done"]
    ELSE LET k == Head(s.keys)
         IN  [s EXCEPT !.keys = Tail(s.keys),
                       !.out = Println(s.out, FieldLine(k, DictGet(s.scene, k)))]

Terminal(s) == s.pc \in {"done", "failed"}

\* the statement the program counter stands at
StepOf(s) ==
    CASE s.pc = "load" -> LoadStep(s)
      [] s.pc = "test_projects" -> TestProjectsStep(s)
      [] s.pc = "get_project" -> GetProjectStep(s)
      [] s.pc = "project_header" -> ProjectHeaderStep(s)
      [] s.pc = "project_keys" -> ProjectKeysStep(s)
      [] s.pc = "project_loop" -> ProjectLoopStep(s)
      [] s.pc = "test_scenes" -> TestScenesStep(s)
      [] s.pc = "scene_header" -> SceneHeaderStep(s)
      [] s.pc = "get_scene" -> GetSceneStep(s)
      [] s.pc = "scene_keys" -> SceneKeysStep(s)
      [] s.pc = "scene_loop" -> SceneLoopStep(s)
      [] OTHER -> s

RECURSIVE RunFrom(_)
RunFrom(s) == IF Terminal(s) THEN s ELSE RunFrom(StepOf(s))

\* a whole run of the script on the given standard input
Run(input) == RunFrom(StartState(input))

(* The standard inputs explored *)

RECURSIVE DumpSeq(_, _, _)
RECURSIVE Dump(_)

\* the tokens of the text of v, as json.dumps writes it
Dump(v) ==
    CASE Kind(v) = "null" -> <<Tok("literal", "null")>>
      [] Kind(v) = "bool" -> <<Tok("literal", IF Payload(v) THEN "true" ELSE "false")>>
      [] Kind(v) = "int" ->
           <<Tok("number", CASE Payload(v) = 0 -> "0" [] Payload(v) = 1 -> "1" [] OTHER -> "5")>>
      [] Kind(v) = "float" ->
           <<Tok("number", IF Payload(v) = 0 THEN "0.0" ELSE "5.0")>>
      [] Kind(v) = "str" -> <<Tok("string", Payload(v))>>
      [] Kind(v) = "list" -> <<Tok("[", "")>> \o DumpSeq(Payload(v), 1, FALSE) \o <<Tok("]", "")>>
      [] Kind(v) = "dict" -> <<Tok("{", "")>> \o DumpSeq(Payload(v), 1, TRUE) \o <<Tok("}", "")>>

DumpSeq(items, i, members) ==
    IF i > Len(items) THEN <<>>
    ELSE (IF i > 1 THEN <<Tok(",", "")>> ELSE <<>>)
         \o (IF members
             THEN <<Tok("string", items[i][1]), Tok(":", "")>> \o Dump(items[i][2])
             ELSE Dump(items[i]))
         \o DumpSeq(items, i + 1, members)

\* the sequences of at most n distinct members of K
Arrangements(K, n) ==
    UNION {{ks \in [1..m -> K] : \A i, j \in 1..m : i # j => ks[i] # ks[j]} : m \in 0..n}

RECURSIVE PairSeqs(_, _)
\* the key/value sequences over the keys ks, each value drawn from vals[key]
PairSeqs(ks, vals) ==
    IF ks = <<>> THEN {<<>>}
    ELSE {<<<<ks[1], v>>>> \o rest : v \in vals[ks[1]], rest \in PairSeqs(Tail(ks), vals)}

ExtraElems == {JInt(5), JDict(<<<<"a", JInt(1)>>>>)}

\* what may follow the first element of a list
Tails == UNION {[1..m -> ExtraElems] : m \in 0..MaxExtra}

\* the tails the explored inputs carry: none, or one extra element
InputTails == {t \in Tails : Len(t) <= 1 /\ \A i \in 1..Len(t) : t[i] = JInt(5)}

\* the dicts with at most n of the keys K, in every order, values drawn from vals
DictsOver(K, n, vals) ==
    UNION {{JDict(ps) : ps \in PairSeqs(ks, vals)} : ks \in Arrangements(K, n)}

SceneKeys == {"duration", "title", "scenes", "Name"}

SceneVals ==
    [k \in SceneKeys |->
        CASE k = "duration" -> {JFloat(50)}
          [] k = "title" -> {JStr("Intro")}
          [] k = "scenes" -> {JList(<<>>)}
          [] k = "Name" -> {JNull}]

Scenes == DictsOver(SceneKeys, MaxSceneFields, SceneVals)

\* values of "scenes" that are not a list of objects
OddScenes ==
    {JNull, JInt(0), JInt(5), JStr(""), JStr("Intro"), JDict(<<>>),
     JDict(<<<<"a", JInt(1)>>>>), JList(<<>>)}

ScenesValues ==
    OddScenes
    \cup {JList(<<first>> \o t) : first \in Scenes \cup {JInt(5)}, t \in InputTails}

ProjectKeys == {"id", "name", "scenes", "title"}

\* projects with fields of every type, and few kinds of scenes
RichVals ==
    [k \in ProjectKeys |->
        CASE k = "id" -> {JInt(1), JBool(TRUE), JNull}
          [] k = "name" -> {JStr("A"), JFloat(50)}
          [] k = "title" -> {JList(<<>>), JDict(<<>>)}
          [] k = "scenes" ->
               {JList(<<>>),
                JList(<<JDict(<<<<"title", JStr("Intro")>>, <<"duration", JFloat(50)>>>>)>>)}]

\* projects with few kinds of fields, and scenes of every kind
PlainVals ==
    [k \in ProjectKeys |->
        CASE k = "id" -> {JInt(1)}
          [] k = "name" -> {JStr("A")}
          [] k = "title" -> {JList(<<>>)}
          [] k = "scenes" -> ScenesValues]

Projects ==
    DictsOver(ProjectKeys, Cardinality(ProjectKeys), RichVals)
    \cup DictsOver({"id", "scenes", "title"}, Cardinality(ProjectKeys), PlainVals)

\* values of "projects" that are not a list of objects
OddProjects ==
    {JNull, JBool(FALSE), JBool(TRUE), JInt(0), JInt(5), JFloat(0), JStr(""), JStr("Intro"),
     JDict(<<>>), JDict(<<<<"a", JInt(1)>>>>), JList(<<>>)}

ProjectsValues ==
    OddProjects
    \cup {JList(<<first>> \o t) :
            first \in Projects \cup {JInt(5), JStr("Intro"), JNull, JList(<<>>)},
            t \in InputTails}

\* documents whose top level is not an object with a "projects" key
OddDocs ==
    {JNull, JBool(TRUE), JInt(5), JStr("A"), JList(<<>>), JList(<<JInt(1)>>),
     JDict(<<>>), JDict(<<<<"a", JInt(1)>>>>)}

Docs == OddDocs \cup {JDict(<<<<"projects", pv>>>>) : pv \in ProjectsValues}

ValidInputs == {Dump(d) : d \in Docs}

\* the documents of the examples, whose texts are cut short or extended
SampleDocs ==
    {JDict(<<<<"projects", JList(<<>>)>>>>),
     JDict(<<<<"projects", JList(<<JDict(<<<<"name", JStr("A")>>, <<"id", JInt(1)>>,
                                            <<"scenes", JList(<<>>)>>>>)>>)>>>>),
     JDict(<<<<"projects", JList(<<JDict(<<<<"id", JInt(1)>>,
         <<"scenes", JList(<<JDict(<<<<"duration", JFloat(50)>>,
                                     <<"title", JStr("Intro")>>>>)>>)>>>>)>>)>>>>)}

\* texts that are not JSON: truncated, or with something after the document
MalformedInputs ==
    UNION {{SubSeq(Dump(d), 1, n) : n \in 0..(Len(Dump(d)) - 1)} : d \in SampleDocs}
    \cup {Dump(d) \o <<x>> : d \in SampleDocs, x \in {Tok("}", ""), Tok("number", "1")}}
    \cup {<<Tok("[", ""), Tok("number", "1"), Tok(",", ""), Tok("]", "")>>,
          <<Tok("{", ""), Tok("number", "1"), Tok(":", ""), Tok("number", "1"), Tok("}", "")>>,
          <<Tok(":", "")>>}

Inputs == ValidInputs \cup MalformedInputs

(* The state machine *)

Init ==
    /\ stdin \in Inputs
    /\ pc = "load"
    /\ data = Unset
    /\ p = Unset
    /\ scene = Unset
    /\ keys = <<>>
    /\ out = <<>>
    /\ err = "none"

Becomes(s) ==
    /\ stdin' = s.stdin
    /\ pc' = s.pc
    /\ data' = s.data
    /\ p' = s.p
    /\ scene' = s.scene
    /\ keys' = s.keys
    /\ out' = s.out
    /\ err' = s.err

Load == pc = "load" /\ Becomes(LoadStep(State))

TestProjects == pc = "test_projects" /\ Becomes(TestProjectsStep(State))

GetProject == pc = "get_project" /\ Becomes(GetProjectStep(State))

PrintProjectHeader == pc = "project_header" /\ Becomes(ProjectHeaderStep(State))

ProjectKeysSorted == pc = "project_keys" /\ Becomes(ProjectKeysStep(State))

ProjectLoop == pc = "project_loop" /\ Becomes(ProjectLoopStep(State))

TestScenes == pc = "test_scenes" /\ Becomes(TestScenesStep(State))

PrintSceneHeader == pc = "scene_header" /\ Becomes(SceneHeaderStep(State))

GetScene == pc = "get_scene" /\ Becomes(GetSceneStep(State))

SceneKeysSorted == pc = "scene_keys" /\ Becomes(SceneKeysStep(State))

SceneLoop == pc = "scene_loop" /\ Becomes(SceneLoopStep(State))

Next ==
    \/ Load
    \/ TestProjects
    \/ GetProject
    \/ PrintProjectHeader
    \/ ProjectKeysSorted
    \/ ProjectLoop
    \/ TestScenes
    \/ PrintSceneHeader
    \/ GetScene
    \/ SceneKeysSorted
    \/ SceneLoop

Spec == Init /\ [][Next]_vars

(* Vocabulary of the properties *)

Done == pc \in {"done", "failed"}

\* the values Python takes as false
Falsy == {JNull, JBool(FALSE), JInt(0), JFloat(0), JStr(""), JList(<<>>), JDict(<<>>)}

IsNonEmptyList(v) == Kind(v) = "list" /\ Payload(v) # <<>>

HasProjects == Kind(data) = "dict" /\ \E i \in 1..Len(Payload(data)) : Payload(data)[i][1] = "projects"

ProjectsValue == DictGet(data, "projects")

\* "projects" is a non-empty list
HasProjectList == HasProjects /\ IsNonEmptyList(ProjectsValue)

FirstProject == Payload(ProjectsValue)[1]

\* "projects" is a non-empty list whose first element is an object
HasProjectObject == HasProjectList /\ Kind(FirstProject) = "dict"

KeySet(d) == {Payload(d)[i][1] : i \in 1..Len(Payload(d))}

\* the first project has a "scenes" field that is not false
HasTruthyScenes ==
    HasProjectObject /\ "scenes" \in KeySet(FirstProject) /\ DictGet(FirstProject, "scenes") \notin Falsy

\* the first project's "scenes" is a non-empty list whose first element is an object
HasSceneObject ==
    /\ HasTruthyScenes
    /\ IsNonEmptyList(DictGet(FirstProject, "scenes"))
    /\ Kind(Payload(DictGet(FirstProject, "scenes"))[1]) = "dict"

FirstScene == Payload(DictGet(FirstProject, "scenes"))[1]

\* the type labels the listing is to carry
ExpectedLabel(v) ==
    CASE v[1] = "str" -> "str"
      [] v[1] = "int" -> "int"
      [] v[1] = "float" -> "float"
      [] v[1] = "bool" -> "bool"
      [] v[1] = "list" -> "list"
      [] v[1] = "dict" -> "dict"
      [] v[1] = "null" -> "NoneType"

ExpectedLine(d, k) == "  - " \o k \o ": " \o ExpectedLabel(DictGet(d, k))

BlankAt(o) == {i \in 1..Len(o) : o[i] = ""}

FirstBlank(o) == CHOOSE i \in BlankAt(o) : \A j \in BlankAt(o) : i <= j

\* the lines before the first blank line
ProjectSection(o) == IF BlankAt(o) = {} THEN o ELSE SubSeq(o, 1, FirstBlank(o) - 1)

\* the lines from the first blank line on
SceneSection(o) == IF BlankAt(o) = {} THEN <<>> ELSE SubSeq(o, FirstBlank(o), Len(o))

SceneHeaderPrinted(o) == \E i \in 1..Len(o) : o[i] = SceneHeader

\* lines holds exactly one line per key of K, and nothing else
OneLinePerKey(lines, d, K) ==
    /\ Len(lines) = Cardinality(K)
    /\ \A k \in K : \E i \in 1..Len(lines) : lines[i] = ExpectedLine(d, k)

\* a comes strictly before b in lexicographic order of code points
LexBefore(a, b) ==
    LET x == CodePoints(a)
        y == CodePoints(b)
    IN  \E n \in 0..Len(x) :
          /\ n <= Len(y)
          /\ \A i \in 1..n : x[i] = y[i]
          /\ \/ n = Len(x) /\ n < Len(y)
             \/ n < Len(x) /\ n < Len(y) /\ x[n + 1] < y[n + 1]

\* lines lists the keys K of d in strictly ascending order
AscendingListing(lines, d, K) ==
    \E ks \in [1..Cardinality(K) -> K] :
      /\ \A i \in 1..(Len(ks) - 1) : LexBefore(ks[i], ks[i + 1])
      /\ lines = [i \in 1..Len(ks) |-> ExpectedLine(d, ks[i])]

Rest(o) == SubSeq(o, 2, Len(o))

Orders(n) == {f \in [1..n -> 1..n] : \A i, j \in 1..n : i # j => f[i] # f[j]}

\* the dict d with its keys in every order
Reorderings(d) ==
    {JDict([i \in 1..Len(Payload(d)) |-> Payload(d)[f[i]]]) : f \in Orders(Len(Payload(d)))}

\* the document with another first project, scenes list of the first project, and tails
WithFirstProject(proj, t) == DictSet(data, "projects", JList(<<proj>> \o t))

WithFirstScene(sc, t) == DictSet(FirstProject, "scenes", JList(<<sc>> \o t))

ProjectTail == Tail(Payload(ProjectsValue))

SceneTail == Tail(Payload(DictGet(FirstProject, "scenes")))

SameOutcome(r) == r.out = out /\ r.pc = pc /\ r.err = err

(* The claims *)

\* C1: a parsed document that is an object without a "projects" key gives no
\* output and no error.
C1_NoProjectsKeyIsSilent ==
    (Kind(data) = "dict" /\ ~HasProjects) => (pc # "failed" /\ out = <<>>)

C2Input ==
    Dump(JDict(<<<<"projects", JList(<<JDict(<<<<"name", JStr("A")>>, <<"id", JInt(1)>>,
                                            <<"scenes", JList(<<>>)>>>>)>>)>>>>))

\* C2 as stated: for {"projects": [{"name": "A", "id": 1, "scenes": []}]} the output
\* is the header and the lines of id, name and scenes, without a scene section.
C2_FourLines ==
    (stdin = C2Input /\ Done) =>
        out = <<"Available project fields:", "  - id: int", "  - name: str", "  - scenes: list">>

\* C2 as amended: for {"projects": [{"name": "A", "id": 1, "scenes": []}]} the run ends
\* normally and the output is exactly the header and the lines of id and name; the
\* field "scenes" is not listed and no scene section is printed.
C2_ThreeLines ==
    (stdin = C2Input /\ Done) =>
        /\ pc = "done"
        /\ out = <<"Available project fields:", "  - id: int", "  - name: str">>

C2_Witness == stdin = C2Input /\ pc = "done" /\ Len(out) = 3

\* C3: when "projects" is a non-empty list whose first element is an object, the
\* project section is the header followed by exactly one line per key of that
\* element other than "scenes", each with the key and the type label of its value.
C3_ProjectSection ==
    (Done /\ HasProjectObject) =>
        /\ Len(ProjectSection(out)) >= 1
        /\ ProjectSection(out)[1] = ProjectHeader
        /\ OneLinePerKey(Rest(ProjectSection(out)), FirstProject, KeySet(FirstProject) \ {"scenes"})

C3_Witness ==
    /\ Done
    /\ HasProjectObject
    /\ {"id", "scenes", "title"} \subseteq KeySet(FirstProject)
    /\ DictGet(FirstProject, "id") = JBool(TRUE)
    /\ Len(ProjectSection(out)) = Cardinality(KeySet(FirstProject))

\* C4: the scene section (blank line, header, field lines) is printed exactly when
\* the project entry has a "scenes" field that is not false; when the first scene is
\* an object every one of its keys has its line, the key "scenes" included, and
\* otherwise nothing follows the header.
C4_SceneSection ==
    Done =>
        /\ SceneHeaderPrinted(out) <=> HasTruthyScenes
        /\ ~HasTruthyScenes => SceneSection(out) = <<>>
        /\ HasTruthyScenes =>
             /\ Len(SceneSection(out)) >= 2
             /\ SceneSection(out)[1] = ""
             /\ SceneSection(out)[2] = SceneHeader
             /\ IF HasSceneObject
                THEN OneLinePerKey(Rest(Rest(SceneSection(out))), FirstScene, KeySet(FirstScene))
                ELSE Len(SceneSection(out)) = 2

C4_Witness ==
    /\ pc = "done"
    /\ HasSceneObject
    /\ "scenes" \in KeySet(FirstScene)
    /\ Len(SceneSection(out)) = 2 + Cardinality(KeySet(FirstScene))
    /\ Cardinality(KeySet(FirstScene)) >= 2

\* C5: the field lines of the project listing and of the scene listing are in
\* strictly ascending lexicographic order of field name, and the input with the
\* keys of the project entry, or of the scene entry, in any other order gives the
\* same output.
C5_SortedListings ==
    (Done /\ HasProjectObject) =>
        /\ AscendingListing(Rest(ProjectSection(out)), FirstProject,
                            KeySet(FirstProject) \ {"scenes"})
        /\ \A q \in Reorderings(FirstProject) :
             Run(Dump(WithFirstProject(q, ProjectTail))).out = out
        /\ HasSceneObject =>
             /\ AscendingListing(Rest(Rest(SceneSection(out))), FirstScene, KeySet(FirstScene))
             /\ \A q \in Reorderings(FirstScene) :
                  Run(Dump(WithFirstProject(WithFirstScene(q, SceneTail), ProjectTail))).out = out

C5_Witness ==
    /\ pc = "done"
    /\ HasSceneObject
    /\ DictKeys(FirstProject) = <<"title", "scenes", "id">>
    /\ DictKeys(FirstScene) = <<"title", "Name">>
    /\ out = <<ProjectHeader, "  - id: int", "  - title: list", "", SceneHeader,
               "  - Name: NoneType", "  - title: str">>

\* C6: with "projects" a non-empty list, replacing the elements after the first of
\* "projects", and of the first project's "scenes" when that is a non-empty list, by
\* any others leaves the output and the exit outcome unchanged.
C6_OnlyFirstElements ==
    (Done /\ HasProjectList) =>
        \A t1 \in Tails :
          IF HasProjectObject /\ HasTruthyScenes /\ IsNonEmptyList(DictGet(FirstProject, "scenes"))
          THEN \A t2 \in Tails :
                 SameOutcome(Run(Dump(WithFirstProject(
                     WithFirstScene(Payload(DictGet(FirstProject, "scenes"))[1], t2), t1))))
          ELSE SameOutcome(Run(Dump(WithFirstProject(FirstProject, t1))))

C6_Witness ==
    /\ pc = "done"
    /\ HasSceneObject
    /\ ProjectTail # <<>>
    /\ SceneTail # <<>>
    /\ Len(out) >= 5

\* C7: a valid JSON input never makes the run fail, whatever its shape.
C7_ValidJsonNeverFails == stdin \in ValidInputs => pc # "failed"

\* C8: when "projects" is present and is an empty list, nothing is printed and the
\* run ends normally, right after the test of line 5.
C8_EmptyProjectsSilent ==
    (HasProjects /\ ProjectsValue = JList(<<>>)) =>
        /\ out = <<>>
        /\ pc \in {"test_projects", "done"}
        /\ err = "none"

C8_Witness == HasProjects /\ ProjectsValue = JList(<<>>) /\ pc = "done"

\* C9: when standard input is not valid JSON the run ends in the decoder's error,
\* never ends normally, and nothing is ever written.
C9_MalformedInputFails ==
    stdin \notin ValidInputs =>
        /\ out = <<>>
        /\ pc \in {"load", "failed"}
        /\ pc = "failed" => err = "JSONDecodeError"

C9_Witness == stdin \notin ValidInputs /\ Len(stdin) > 5 /\ pc = "failed"

ProjectListingComplete ==
    /\ HasProjectObject
    /\ Len(out) = 1 + Cardinality(KeySet(FirstProject) \ {"scenes"})
    /\ out[1] = ProjectHeader

IsPrefix(a, b) == Len(a) <= Len(b) /\ a = SubSeq(b, 1, Len(a))

\* C10: output is only appended; the scene header is written only once the project
\* header and every project field line have been written, the project section
\* does not change after it, and a scene header implies a project header.
C10_OutputOrder ==
    [][/\ IsPrefix(out, out')
       /\ (~SceneHeaderPrinted(out) /\ SceneHeaderPrinted(out')) => ProjectListingComplete
       /\ SceneHeaderPrinted(out) => ProjectSection(out') = ProjectSection(out)
       /\ SceneHeaderPrinted(out') => out'[1] = ProjectHeader]_vars

C10_Witness ==
    /\ pc = "done"
    /\ SceneHeaderPrinted(out)
    /\ Len(ProjectSection(out)) >= 3
    /\ Len(SceneSection(out)) >= 4
    /\ "scenes" \in KeySet(FirstProject)
    /\ "title" \in KeySet(FirstProject)

====
